---- MODULE Spec2Model ----
(***************************************************************************)
(* Model of Dicom.Jpeg/JpegHelper.h: JpegHelper::ScanHeaderForBitDepth and *)
(* JpegHelper::ScanJpegForBitDepthInternal.                                *)
(*                                                                         *)
(* The byte stream of the first pixel-data fragment is fixed in the        *)
(* initial state; every read and every seek of the scanner is one step.    *)
(***************************************************************************)
EXTENDS Integers, Sequences, FiniteSets, TLC

VARIABLES
    pixelData,     \* bytes of pixelData->PixelDataSequence->Fragments[0]
    pos,           \* ms->Position
    length,        \* local `length` (line 38)
    marker,        \* local `marker` (line 40); -1 before the first read
    segLen,        \* value of br->ReadUInt16() in the Seek argument; -1 when unset
    b1,            \* local `b1` (line 119); -1 when unset
    b2,            \* local `b2` (line 120); -1 when unset
    pc,            \* control location
    scanResult,    \* outcome of ScanJpegForBitDepthInternal
    result,        \* outcome of ScanHeaderForBitDepth
    primaryCalls,  \* number of calls of ScanJpegForBitDepthInternal
    fallbackCalls, \* number of calls of Jpeg8Codec::ScanHeaderForPrecision
    fallbackArg,   \* argument of the last call of ScanHeaderForPrecision
    fallbackResult,\* outcome of the last call of ScanHeaderForPrecision
    lastOp,        \* history: <<last read or seek, position before, position after>>
    iterStart,     \* history: position of the marker code of this iteration
    prevIterStart, \* history: position of the marker code of the iteration before
    iters          \* history: number of loop iterations begun

vars == <<pixelData, pos, length, marker, segLen, b1, b2, pc, scanResult,
          result, primaryCalls, fallbackCalls, fallbackArg, fallbackResult, lastOp,
          iterStart, prevIterStart, iters>>

-----------------------------------------------------------------------------
(* Bounds of the input space.                                              *)

MaxLen == 4        \* longest stream of arbitrary bytes
MaxTail == 3       \* longest arbitrary tail after a leading marker code
MaxSegLen == 4     \* largest declared length of a constructed leading segment
MaxZero == 2       \* most markers in a stream of zero-payload markers only
MaxParts == 2      \* most segments before the first SOF of a well-formed stream

-----------------------------------------------------------------------------
(* Outcomes.                                                               *)

None == [kind |-> "none", val |-> -1, err |-> ""]
Value(v) == [kind |-> "value", val |-> v, err |-> ""]
Failure(e) == [kind |-> "error", val |-> -1, err |-> e]

\* "Unable to determine bit depth: JPEG syntax error!"
SyntaxError == Failure("SyntaxError")
\* "Unable to determine bit depth: no JPEG SOF marker found!"
NotFoundError == Failure("NotFoundError")
\* EndOfStreamException of the reader
\* the short read reported as the scanner's own syntax error
ReadErrorAsSyntax == Failure("SyntaxError")

ReadError == Failure("EndOfStream")
\* IOException of MemoryStream::Seek before the beginning of the stream
SeekError == Failure("SeekBeforeBegin")

-----------------------------------------------------------------------------
(* The reader and the stream.                                              *)

Min(a, b) == IF a < b THEN a ELSE b

\* bytes left for a read of n bytes at position p of stream s
CanRead(s, p, n) == p >= 0 /\ p + n <= Len(s)

\* EndianBinaryReader (Endian::Big) ReadUInt16: high byte first
ReadUInt16(s, p) == s[p + 1] * 256 + s[p + 2]

\* the byte read as a signed one (ReadSByte)
ReadByteSigned(s, p) == IF s[p + 1] > 127 THEN s[p + 1] - 256 ELSE s[p + 1]

\* BinaryReader::ReadByte
ReadByte(s, p) == s[p + 1]

\* a read that leaves the position where it was (a peek)
AfterReadPeek(s, p, n) == p

\* position after a read of n bytes: a short read consumes what is left
AfterRead(s, p, n) == IF p >= Len(s) THEN p ELSE Min(p + n, Len(s))

\* the seek taken from the beginning of the stream (SeekOrigin::Begin)
SeekBegin(p, off) == off

\* ms->Seek(off, SeekOrigin::Current): the new position, which may lie
\* beyond the end of the stream
SeekCurrent(p, off) == p + off

\* the offset computed in unsigned 16-bit arithmetic, wrapping around
SkipOffsetWrapped(n) == (n - 2) % 65536

\* the body of a segment not skipped at all
SkipOffsetNone(n) == 0

\* the declared length taken to count from the marker code
SkipOffsetFromMarker(n) == n - 4

\* the declared length taken not to count its own two bytes
SkipOffsetUnadjusted(n) == n

\* the operand of the Seek in lines 52, 64, 114: int arithmetic on a ushort
SkipOffset(n) == n - 2

-----------------------------------------------------------------------------
(* The case labels of the switch.                                          *)

SofHuffmanCases == (65472 .. 65475) \cup (65477 .. 65479)   \* ffc0-ffc3, ffc5-ffc7
JpegExtCases == {65480}                                     \* ffc8
SofArithCases == (65481 .. 65483) \cup (65485 .. 65487)     \* ffc9-ffcb, ffcd-ffcf
TableCases == {65476, 65484}                                \* ffc4 DHT, ffcc DAC
RstCases == 65488 .. 65497                                  \* ffd0-ffd7, SOI, EOI
SegmentCases == 65498 .. 65534                              \* ffda .. fffe
TemCases == {65281}                                         \* ff01

\* ffc8 taken for a frame marker like its neighbours
ClassifyExtAsSof(m) ==
    IF m \in SofHuffmanCases \cup JpegExtCases \cup SofArithCases THEN "sof_seek"
    ELSE IF m \in TableCases \cup SegmentCases THEN "len_read"
    ELSE IF m \in RstCases \cup TemCases THEN "loop"
    ELSE "res_b1"

\* the TEM label left out
ClassifyWithoutTem(m) ==
    IF m \in SofHuffmanCases \cup SofArithCases THEN "sof_seek"
    ELSE IF m \in JpegExtCases \cup TableCases \cup SegmentCases THEN "len_read"
    ELSE IF m \in RstCases THEN "loop"
    ELSE "res_b1"

\* the arithmetic SOF labels grouped with the ffc8 case above them
ClassifyArithSkipped(m) ==
    IF m \in SofHuffmanCases THEN "sof_seek"
    ELSE IF m \in JpegExtCases \cup SofArithCases \cup TableCases \cup SegmentCases
         THEN "len_read"
    ELSE IF m \in RstCases \cup TemCases THEN "loop"
    ELSE "res_b1"

Classify(m) ==
    IF m \in SofHuffmanCases \cup SofArithCases THEN "sof_seek"
    ELSE IF m \in JpegExtCases \cup TableCases \cup SegmentCases THEN "len_read"
    ELSE IF m \in RstCases \cup TemCases THEN "loop"
    ELSE "res_b1"

\* the lower end of the reserved range taken inclusive (b2 >= 2)
IsReservedFrom02(x1, x2) == x1 = 255 /\ x2 >= 2 /\ x2 <= 191

\* the upper end of the reserved range taken one too far (ffc0)
IsReservedThroughC0(x1, x2) == x1 = 255 /\ x2 > 2 /\ x2 <= 192

\* line 121: RES reserved markers
IsReserved(x1, x2) == x1 = 255 /\ x2 > 2 /\ x2 <= 191

-----------------------------------------------------------------------------
(* The fallback detector, Jpeg8Codec::ScanHeaderForPrecision: a black box  *)
(* that returns a precision or fails.                                      *)

ScanHeaderForPrecision(pd) == {Value(8), Value(12), Failure("FallbackError")}

-----------------------------------------------------------------------------
(* Input streams.                                                          *)

SeqsUpTo(S, n) == UNION {[1 .. k -> S] : k \in 0 .. n}

ByteSamples == {0, 1, 3, 192, 216, 254, 255}
TailBytes == {0, 3, 8, 192, 255}
BodyBytes == {0, 192, 255}
Precisions == {0, 1, 8, 12, 16, 255}
MarkerLows == {0, 1, 2, 3, 5, 160, 191} \cup (192 .. 254)
LeadLows == {196, 218, 224, 254}
ReservedLows == {2, 3, 5, 191, 192}
ZeroLows == (208 .. 217) \cup {1}

\* a complete SOF_0 segment of a one-component frame with precision p
Sof0Segment(p) == <<255, 192, 0, 11, p, 0, 1, 0, 1, 1, 1, 17, 0>>

\* every short stream over a few byte values
ArbitraryStreams == SeqsUpTo(ByteSamples, MaxLen)

\* a marker code followed by a few arbitrary bytes
MarkerStreams ==
    {<<255, lo>> \o t : lo \in MarkerLows, t \in SeqsUpTo(TailBytes, MaxTail)}

\* a length-prefixed marker with declared length n and a body of n - 2
\* bytes (no body when n < 2), followed by an SOF_0 segment
SegmentStreams ==
    UNION {{<<255, lo, n \div 256, n % 256>> \o body \o Sof0Segment(p) :
                lo \in LeadLows, p \in Precisions,
                body \in [1 .. (IF n > 2 THEN n - 2 ELSE 0) -> BodyBytes]} :
           n \in 0 .. MaxSegLen}

\* the pair ff xx, possibly after another marker code, followed by an
\* SOF_0 segment
ReservedStreams ==
    {pre \o <<255, r>> \o Sof0Segment(p) :
        pre \in {<<>>, <<0, 0>>, <<255, 160>>, <<255, 216>>},
        r \in ReservedLows, p \in Precisions}

\* zero-payload marker codes only
ZeroStreams ==
    {[i \in 1 .. 2 * Len(w) |-> IF i % 2 = 1 THEN 255 ELSE w[i \div 2]] :
        w \in SeqsUpTo(ZeroLows, MaxZero)}

\* an SOF segment with marker code ff lo and precision p
SofSegment(lo, p) == <<255, lo, 0, 11, p, 0, 1, 0, 1, 1, 1, 17, 0>>

\* well-formed segments that are no SOF: SOI, RST0, TEM, an empty COM, an
\* APP0 and an ffc8 segment whose bodies hold SOF byte patterns, a DHT of
\* odd length, an empty SOS
Parts ==
    {<<255, 216>>, <<255, 208>>, <<255, 1>>, <<255, 254, 0, 2>>,
     <<255, 224, 0, 4, 255, 192>>, <<255, 200, 0, 7, 255, 192, 0, 11, 16>>,
     <<255, 196, 0, 3, 8>>, <<255, 218, 0, 2>>}

RECURSIVE Concat(_)
Concat(w) == IF w = <<>> THEN <<>> ELSE Head(w) \o Concat(Tail(w))

\* up to MaxParts well-formed segments, an SOF segment, and then nothing,
\* an EOI or a second SOF segment of another precision
WellFormedStreams ==
    {Concat(w) \o SofSegment(lo, p) \o rest :
        w \in SeqsUpTo(Parts, MaxParts), lo \in {192, 195, 207}, p \in {8, 12},
        rest \in {<<>>, <<255, 217>>, Sof0Segment(16)}}

\* an SOF marker code, a frame length and each of the 256 byte values as
\* the precision
PrecisionStreams == {<<255, lo, 0, 11, p>> : lo \in {192, 207}, p \in 0 .. 255}

Streams ==
    ArbitraryStreams \cup MarkerStreams \cup SegmentStreams
        \cup ReservedStreams \cup ZeroStreams \cup WellFormedStreams
        \cup PrecisionStreams

-----------------------------------------------------------------------------
(* ScanHeaderForBitDepth and ScanJpegForBitDepthInternal.                  *)

Init ==
    /\ pixelData \in Streams
    /\ pos = 0
    /\ length = -1
    /\ marker = -1
    /\ segLen = -1
    /\ b1 = -1
    /\ b2 = -1
    /\ pc = "start"
    /\ scanResult = None
    /\ result = None
    /\ primaryCalls = 0
    /\ fallbackCalls = 0
    /\ fallbackArg = <<>>
    /\ fallbackResult = None
    /\ lastOp = <<"none", 0, 0>>
    /\ iterStart = -1
    /\ prevIterStart = -1
    /\ iters = 0

\* the scanner leaves by an exception: control passes to catch (...)
Throw(e, p) ==
    /\ scanResult' = e
    /\ pos' = p
    /\ pc' = "catch"

\* lines 20-22, 34-38: the try block calls the scanner, which opens the
\* stream of fragment 0 and takes its length
CallPrimary ==
    /\ pc = "start"
    /\ primaryCalls' = primaryCalls + 1
    /\ length' = Len(pixelData)
    /\ pc' = "loop"
    /\ UNCHANGED <<pixelData, pos, marker, segLen, b1, b2, scanResult, result,
                   fallbackCalls, fallbackArg, fallbackResult, lastOp,
                   iterStart, prevIterStart, iters>>

\* line 39: the loop condition holds
LoopEnter ==
    /\ pc = "loop"
    /\ pos < length
    /\ pc' = "read_marker"
    /\ UNCHANGED <<pixelData, pos, length, marker, segLen, b1, b2, scanResult,
                   result, primaryCalls, fallbackCalls, fallbackArg,
                   fallbackResult, lastOp,
                   iterStart, prevIterStart, iters>>

\* the loop left one byte early: while (ms->Position < length - 1)
LoopExitEarly ==
    /\ pc = "loop"
    /\ ~(pos < length - 1)
    /\ Throw(NotFoundError, pos)
    /\ lastOp' = <<"notfound", pos, pos>>
    /\ UNCHANGED <<pixelData, length, marker, segLen, b1, b2, result,
                   primaryCalls, fallbackCalls, fallbackArg, fallbackResult,
                   iterStart, prevIterStart, iters>>

\* lines 39, 127: the loop condition fails
LoopExit ==
    /\ pc = "loop"
    /\ ~(pos < length)
    /\ Throw(NotFoundError, pos)
    /\ lastOp' = <<"notfound", pos, pos>>
    /\ UNCHANGED <<pixelData, length, marker, segLen, b1, b2, result,
                   primaryCalls, fallbackCalls, fallbackArg, fallbackResult,
                   iterStart, prevIterStart, iters>>

\* lines 40-41: read the marker code and enter its case
ReadMarker ==
    /\ pc = "read_marker"
    /\ IF CanRead(pixelData, pos, 2)
       THEN /\ marker' = ReadUInt16(pixelData, pos)
            /\ pos' = AfterRead(pixelData, pos, 2)
            /\ pc' = Classify(marker')
            /\ scanResult' = scanResult
       ELSE /\ Throw(ReadError, AfterRead(pixelData, pos, 2))
            /\ marker' = marker
    /\ lastOp' = <<"marker", pos, pos'>>
    /\ iterStart' = pos
    /\ prevIterStart' = iterStart
    \* the count stops at one more than the length of the stream
    /\ iters' = Min(iters + 1, Len(pixelData) + 1)
    /\ UNCHANGED <<pixelData, length, segLen, b1, b2, result, primaryCalls,
                   fallbackCalls, fallbackArg, fallbackResult>>

\* lines 49, 60: skip the frame header length
SofSeek ==
    /\ pc = "sof_seek"
    /\ pos' = SeekCurrent(pos, 2)
    /\ pc' = "sof_read"
    /\ lastOp' = <<"seek", pos, pos'>>
    /\ UNCHANGED <<pixelData, length, marker, segLen, b1, b2, scanResult,
                   result, primaryCalls, fallbackCalls, fallbackArg,
                   fallbackResult,
                   iterStart, prevIterStart, iters>>

\* lines 50, 61: return the precision byte
SofReadByte ==
    /\ pc = "sof_read"
    /\ IF CanRead(pixelData, pos, 1)
       THEN /\ scanResult' = Value(ReadByte(pixelData, pos))
            /\ pos' = AfterRead(pixelData, pos, 1)
            /\ pc' = "return"
       ELSE Throw(ReadError, AfterRead(pixelData, pos, 1))
    /\ lastOp' = <<"precision", pos, pos'>>
    /\ UNCHANGED <<pixelData, length, marker, segLen, b1, b2, result,
                   primaryCalls, fallbackCalls, fallbackArg, fallbackResult,
                   iterStart, prevIterStart, iters>>

\* lines 52, 64, 114: br->ReadUInt16(), the declared segment length
ReadLength ==
    /\ pc = "len_read"
    /\ IF CanRead(pixelData, pos, 2)
       THEN /\ segLen' = ReadUInt16(pixelData, pos)
            /\ pos' = AfterRead(pixelData, pos, 2)
            /\ pc' = "len_seek"
            /\ scanResult' = scanResult
       ELSE /\ Throw(ReadError, AfterRead(pixelData, pos, 2))
            /\ segLen' = segLen
    /\ lastOp' = <<"length", pos, pos'>>
    /\ UNCHANGED <<pixelData, length, marker, b1, b2, result, primaryCalls,
                   fallbackCalls, fallbackArg, fallbackResult,
                   iterStart, prevIterStart, iters>>

\* the seek refused when it would leave the cursor beyond the last byte
SeekLengthWithinStream ==
    /\ pc = "len_seek"
    /\ IF /\ SeekCurrent(pos, SkipOffset(segLen)) >= 0
          /\ SeekCurrent(pos, SkipOffset(segLen)) <= length
       THEN /\ pos' = SeekCurrent(pos, SkipOffset(segLen))
            /\ pc' = "loop"
            /\ scanResult' = scanResult
       ELSE Throw(SeekError, pos)
    /\ lastOp' = <<"skip", pos, pos'>>
    /\ UNCHANGED <<pixelData, length, marker, segLen, b1, b2, result,
                   primaryCalls, fallbackCalls, fallbackArg, fallbackResult,
                   iterStart, prevIterStart, iters>>

\* lines 52-53, 64-65, 114-115: ms->Seek(length - 2, Current); break
SeekLength ==
    /\ pc = "len_seek"
    /\ IF SeekCurrent(pos, SkipOffset(segLen)) >= 0
       THEN /\ pos' = SeekCurrent(pos, SkipOffset(segLen))
            /\ pc' = "loop"
            /\ scanResult' = scanResult
       ELSE Throw(SeekError, pos)
    /\ lastOp' = <<"skip", pos, pos'>>
    /\ UNCHANGED <<pixelData, length, marker, segLen, b1, b2, result,
                   primaryCalls, fallbackCalls, fallbackArg, fallbackResult,
                   iterStart, prevIterStart, iters>>

\* line 119
ReadB1 ==
    /\ pc = "res_b1"
    /\ IF CanRead(pixelData, pos, 1)
       THEN /\ b1' = ReadByte(pixelData, pos)
            /\ pos' = AfterRead(pixelData, pos, 1)
            /\ pc' = "res_b2"
            /\ scanResult' = scanResult
       ELSE /\ Throw(ReadError, AfterRead(pixelData, pos, 1))
            /\ b1' = b1
    /\ lastOp' = <<"b1", pos, pos'>>
    /\ UNCHANGED <<pixelData, length, marker, segLen, b2, result, primaryCalls,
                   fallbackCalls, fallbackArg, fallbackResult,
                   iterStart, prevIterStart, iters>>

\* line 120
ReadB2 ==
    /\ pc = "res_b2"
    /\ IF CanRead(pixelData, pos, 1)
       THEN /\ b2' = ReadByte(pixelData, pos)
            /\ pos' = AfterRead(pixelData, pos, 1)
            /\ pc' = "res_check"
            /\ scanResult' = scanResult
       ELSE /\ Throw(ReadError, AfterRead(pixelData, pos, 1))
            /\ b2' = b2
    /\ lastOp' = <<"b2", pos, pos'>>
    /\ UNCHANGED <<pixelData, length, marker, segLen, b1, result, primaryCalls,
                   fallbackCalls, fallbackArg, fallbackResult,
                   iterStart, prevIterStart, iters>>

\* lines 121-124
ReservedCheck ==
    /\ pc = "res_check"
    /\ IF IsReserved(b1, b2)
       THEN /\ pc' = "loop"
            /\ UNCHANGED <<pos, scanResult>>
       ELSE Throw(SyntaxError, pos)
    /\ lastOp' = <<"check", pos, pos>>
    /\ UNCHANGED <<pixelData, length, marker, segLen, b1, b2, result,
                   primaryCalls, fallbackCalls, fallbackArg, fallbackResult,
                   iterStart, prevIterStart, iters>>

\* the byte returned through a signed 8-bit conversion
PrimaryReturnSigned ==
    /\ pc = "return"
    /\ result' = Value(IF scanResult.val > 127 THEN scanResult.val - 256
                                               ELSE scanResult.val)
    /\ pc' = "done"
    /\ UNCHANGED <<pixelData, pos, length, marker, segLen, b1, b2, scanResult,
                   primaryCalls, fallbackCalls, fallbackArg, fallbackResult,
                   lastOp, iterStart, prevIterStart, iters>>

\* line 22: return what the scanner returned
PrimaryReturn ==
    /\ pc = "return"
    /\ result' = scanResult
    /\ pc' = "done"
    /\ UNCHANGED <<pixelData, pos, length, marker, segLen, b1, b2, scanResult,
                   primaryCalls, fallbackCalls, fallbackArg, fallbackResult, lastOp,
                   iterStart, prevIterStart, iters>>

\* catch (DicomCodecException^) in place of catch (...): a failed read
\* leaves the function uncaught
CatchCodecExceptionOnly ==
    /\ pc = "catch"
    /\ IF scanResult \in {SyntaxError, NotFoundError}
       THEN /\ fallbackCalls' = fallbackCalls + 1
            /\ fallbackArg' = pixelData
            /\ fallbackResult' \in ScanHeaderForPrecision(pixelData)
            /\ result' = fallbackResult'
       ELSE /\ result' = scanResult
            /\ UNCHANGED <<fallbackCalls, fallbackArg, fallbackResult>>
    /\ pc' = "done"
    /\ UNCHANGED <<pixelData, pos, length, marker, segLen, b1, b2, scanResult,
                   primaryCalls, lastOp, iterStart, prevIterStart, iters>>

\* a failure of the fallback detector swallowed, 0 returned in its place
CatchFallbackSwallow ==
    /\ pc = "catch"
    /\ fallbackCalls' = fallbackCalls + 1
    /\ fallbackArg' = pixelData
    /\ fallbackResult' \in ScanHeaderForPrecision(pixelData)
    /\ result' = IF fallbackResult'.kind = "error" THEN Value(0)
                                                   ELSE fallbackResult'
    /\ pc' = "done"
    /\ UNCHANGED <<pixelData, pos, length, marker, segLen, b1, b2, scanResult,
                   primaryCalls, lastOp, iterStart, prevIterStart, iters>>

\* lines 24-28: catch (...) { return codec->ScanHeaderForPrecision(pixelData); }
\* a failure of the detector leaves the function as it is
CatchFallback ==
    /\ pc = "catch"
    /\ fallbackCalls' = fallbackCalls + 1
    /\ fallbackArg' = pixelData
    /\ fallbackResult' \in ScanHeaderForPrecision(pixelData)
    /\ result' = fallbackResult'
    /\ pc' = "done"
    /\ UNCHANGED <<pixelData, pos, length, marker, segLen, b1, b2, scanResult,
                   primaryCalls, lastOp,
                   iterStart, prevIterStart, iters>>

Next ==
    \/ CallPrimary
    \/ LoopEnter
    \/ LoopExit
    \/ ReadMarker
    \/ SofSeek
    \/ SofReadByte
    \/ ReadLength
    \/ SeekLength
    \/ ReadB1
    \/ ReadB2
    \/ ReservedCheck
    \/ PrimaryReturn
    \/ CatchFallback

Spec == Init /\ [][Next]_vars

\* the scan is a synchronous loop: a step that can be taken is taken
FairSpec == Spec /\ WF_vars(Next)

-----------------------------------------------------------------------------
(* Properties.                                                             *)

\* the scanner has returned or thrown
ScanEnded == scanResult.kind # "none"

\* the SOF marker codes: ffc0-ffc3, ffc5-ffc7, ffc9-ffcb, ffcd-ffcf
SofCodes == {65472 + k : k \in {0, 1, 2, 3, 5, 6, 7, 9, 10, 11, 13, 14, 15}}

\* stream s begins with an SOF marker code, two bytes and a precision byte
BeginsWithSof(s) == Len(s) >= 5 /\ s[1] * 256 + s[2] \in SofCodes

\* C1: a scan of a stream that begins with an SOF marker code, any two
\* bytes and a precision byte P never fails and returns exactly P.
C1_SofPrecision ==
    BeginsWithSof(pixelData) =>
        /\ scanResult \in {None, Value(pixelData[5])}
        /\ pc \in {"return", "done"} => scanResult = Value(pixelData[5])

\* an arithmetic SOF (ffcf) with a non-zero frame length was scanned
C1_Witness ==
    /\ Len(pixelData) = 5
    /\ pixelData[1] = 255 /\ pixelData[2] = 207
    /\ pixelData[4] # 0
    /\ pc = "return"
    /\ scanResult = Value(pixelData[5])

\* C2: once the scanner has failed, in whatever way, the resolver ends with
\* the fallback detector called exactly once, on the pixel data the resolver
\* was given, the scanner called once only, and the detector's outcome as
\* the resolver's outcome.
C2_FailureFallsBack ==
    (pc = "done" /\ scanResult.kind = "error") =>
        /\ fallbackCalls = 1
        /\ fallbackArg = pixelData
        /\ primaryCalls = 1
        /\ fallbackResult.kind # "none"
        /\ result = fallbackResult

\* a truncated stream: the read failure was answered by the fallback
C2_Witness ==
    /\ pc = "done"
    /\ scanResult = ReadError
    /\ fallbackCalls = 1
    /\ result = Value(12)

\* C3: once the scanner has returned a value, the fallback detector is not
\* called and the resolver ends with exactly that value.
C3_SuccessSkipsFallback ==
    scanResult.kind = "value" =>
        /\ fallbackCalls = 0
        /\ fallbackResult = None
        /\ pc \in {"return", "done"}
        /\ pc = "done" => result = scanResult

\* the resolver returned a precision of 255 found by the scanner
C3_Witness ==
    /\ pc = "done"
    /\ scanResult = Value(255)
    /\ result = Value(255)
    /\ fallbackCalls = 0

\* C4: when the scanner and then the fallback detector fail, the resolver
\* ends with the detector's failure: no value, one call of each, and
\* nothing more to run.
C4_FallbackFailurePropagates ==
    (scanResult.kind = "error" /\ fallbackResult.kind = "error") =>
        /\ pc = "done"
        /\ result = fallbackResult
        /\ result.kind = "error"
        /\ fallbackCalls = 1
        /\ primaryCalls = 1
        /\ ~ENABLED Next

\* the scanner found no SOF and the detector failed as well
C4_Witness ==
    /\ pc = "done"
    /\ scanResult = NotFoundError
    /\ fallbackResult = Failure("FallbackError")
    /\ result = Failure("FallbackError")

\* the original statement of C5: no read and no seek moves the position
\* backward
C5_NeverBackward == lastOp[3] >= lastOp[2]

\* C5 (amended): no read and no 2-byte SOF seek moves the position backward;
\* the seek past a segment moves it backward only for a declared length of
\* 0 or 1, by at most 2 bytes and never to before the length field, and
\* each marker code is read at a greater position than the one before it.
C5_BackwardOnlyShortSkip ==
    /\ lastOp[3] < lastOp[2] =>
          /\ lastOp[1] = "skip"
          /\ segLen \in {0, 1}
          /\ lastOp[3] >= lastOp[2] - 2
          /\ lastOp[3] >= iterStart + 2
    /\ (lastOp[1] = "skip" /\ segLen >= 2) => lastOp[3] >= lastOp[2]
    /\ iterStart >= 0 => prevIterStart < iterStart

\* a declared length of 0 took the position back by two bytes, and the next
\* marker code was read from the length field
C5_Witness ==
    /\ segLen = 0
    /\ prevIterStart >= 0
    /\ iterStart = prevIterStart + 2
    /\ lastOp[1] = "marker"

\* C6: every iteration that comes back to the loop condition has left the
\* position beyond the marker code it began at, and on every stream the
\* scan reaches an outcome: it returns or fails.
C6_ScanTerminates ==
    /\ []((pc = "loop" /\ iterStart >= 0) => pos > iterStart)
    /\ <>ScanEnded

\* the scan ended after a second marker code, read after a skip that went
\* backward
C6_Witness ==
    /\ ScanEnded
    /\ prevIterStart >= 0
    /\ iterStart > prevIterStart
    /\ segLen \in {0, 1}

\* C7: the scan has an outcome exactly when it has left the loop, by a
\* return or by a failure; a value is the byte read at offset 4 of a marker
\* code of the SOF set, and a failure carries no value.
C7_ValueOnlyFromSof ==
    /\ (pc \in {"return", "catch", "done"}) <=> ScanEnded
    /\ scanResult.kind \in {"none", "value", "error"}
    /\ scanResult.kind = "value" =>
          /\ marker \in SofCodes
          /\ lastOp = <<"precision", iterStart + 4, iterStart + 5>>
          /\ scanResult.val = pixelData[iterStart + 5]
          /\ pc \in {"return", "done"}
    /\ scanResult.kind = "error" =>
          /\ scanResult.val = -1
          /\ pc \in {"catch", "done"}

\* a value was returned from an SOF that follows a skipped COM segment
C7_Witness ==
    /\ scanResult.kind = "value"
    /\ Len(pixelData) > 2
    /\ pixelData[2] = 254
    /\ iterStart > 0

\* the zero-payload marker codes: TEM, RST0..RST7, SOI, EOI
ZeroCodes == {65281} \cup (65488 .. 65497)

\* stream s is a concatenation of zero-payload marker codes
ZeroOnly(s) ==
    /\ Len(s) % 2 = 0
    /\ \A i \in 1 .. (Len(s) \div 2) : s[2 * i - 1] * 256 + s[2 * i] \in ZeroCodes

\* C8: on a stream of zero-payload marker codes only, each marker code takes
\* two bytes and the loop goes on, no length and no other byte is read, no
\* seek is made, and the scan fails with NotFoundError at the end.
C8_ZeroPayloadOnly ==
    ZeroOnly(pixelData) =>
        /\ lastOp[1] \in {"none", "marker", "notfound"}
        /\ lastOp[1] = "marker" =>
              /\ lastOp[3] = lastOp[2] + 2
              /\ pos = lastOp[3]
              /\ pc \in {"loop", "read_marker"}
        /\ segLen = -1 /\ b1 = -1 /\ b2 = -1
        /\ (iterStart >= 0 /\ prevIterStart >= 0) => iterStart = prevIterStart + 2
        /\ ScanEnded => scanResult = NotFoundError /\ pos = Len(pixelData)

\* SOI, EOI and nothing else: not found
C8_Witness ==
    /\ pixelData = <<255, 216, 255, 217>>
    /\ scanResult = NotFoundError
    /\ iterStart = 2

\* stream s is a COM segment of declared length n >= 2 (n - 2 body bytes)
\* followed by an SOF_0 marker code, two bytes and a precision byte
ComThenSof0(s) ==
    /\ Len(s) >= 4
    /\ s[1] = 255 /\ s[2] = 254
    /\ s[3] * 256 + s[4] >= 2
    /\ Len(s) >= s[3] * 256 + s[4] + 7
    /\ s[s[3] * 256 + s[4] + 3] = 255
    /\ s[s[3] * 256 + s[4] + 4] = 192

ReservedPairThenSof0(s, i) ==
    /\ i + 6 <= Len(s)
    /\ s[i] = 255 /\ s[i + 1] = 5
    /\ s[i + 2] = 255 /\ s[i + 3] = 192

\* C10: on a stream that holds the pair ff 05 followed by an SOF_0 segment
\* of precision P, the scan does not fail and returns P.
C10_ReservedPairTolerated ==
    \A i \in 1 .. Len(pixelData) :
        ReservedPairThenSof0(pixelData, i) =>
            /\ scanResult.kind # "error"
            /\ pc \in {"return", "done"} => scanResult = Value(pixelData[i + 6])


\* the pair x, y is ff followed by a byte of the reserved range 03..bf
ReservedPair(x, y) == x = 255 /\ y \in 3 .. 191

\* the original statement of C11: the scan of a stream that begins with the
\* marker code ffa0 and two more bytes, whatever they are, ends with
\* SyntaxError
C11_Ffa0AlwaysSyntaxError ==
    (Len(pixelData) >= 4 /\ pixelData[1] = 255 /\ pixelData[2] = 160 /\ ScanEnded) =>
        scanResult = SyntaxError

\* C11 (amended): once the marker code ffa0 is read, the two bytes after it
\* decide: with fewer than two bytes left the scan fails with a read
\* failure; with two bytes that are not ff and 03..bf it fails with
\* SyntaxError; with ff and 03..bf it does not fail there and goes on to the
\* next marker code, 4 bytes after ffa0.
C11_Ffa0FollowingBytesDecide ==
    marker = 65440 =>
        /\ scanResult = SyntaxError =>
              /\ Len(pixelData) >= iterStart + 4
              /\ ~ReservedPair(pixelData[iterStart + 3], pixelData[iterStart + 4])
        /\ (ScanEnded /\ Len(pixelData) < iterStart + 4) => scanResult = ReadError
        /\ (ScanEnded /\ lastOp[1] # "notfound" /\ Len(pixelData) >= iterStart + 4) =>
              scanResult = SyntaxError
        /\ (lastOp[1] = "check"
                /\ ReservedPair(pixelData[iterStart + 3], pixelData[iterStart + 4])) =>
              /\ ~ScanEnded
              /\ pos = iterStart + 4
              /\ pc \in {"loop", "read_marker"}
        /\ (lastOp[1] = "check"
                /\ ~ReservedPair(pixelData[iterStart + 3], pixelData[iterStart + 4])) =>
              scanResult = SyntaxError

\* ffa0 followed by ff 05: the scan went on and returned the precision of
\* the SOF_0 behind them
C11_Witness ==
    /\ Len(pixelData) > 8
    /\ pixelData[1] = 255 /\ pixelData[2] = 160
    /\ pixelData[3] = 255 /\ pixelData[4] = 5
    /\ prevIterStart = 0
    /\ scanResult = Value(pixelData[9])


\* C12: NotFoundError is the outcome exactly when the loop condition finds
\* the position at or beyond the length of the stream; no SOF marker code
\* has been read then, and it is not the outcome while bytes remain at the
\* loop condition or once an SOF marker code has been read.
C12_NotFoundAtEndOnly ==
    /\ scanResult = NotFoundError =>
          /\ pos >= Len(pixelData)
          /\ lastOp = <<"notfound", pos, pos>>
          /\ marker \notin SofCodes
    /\ (pc = "loop" /\ pos >= Len(pixelData)) =>
          /\ ENABLED LoopExit
          /\ ~ENABLED LoopEnter
          /\ marker \notin SofCodes
    /\ (pc = "loop" /\ pos < Len(pixelData)) => ~ENABLED LoopExit
    /\ (ScanEnded /\ scanResult # NotFoundError) =>
          lastOp[1] \in {"marker", "precision", "length", "b1", "b2", "check"}
    /\ marker \in SofCodes =>
          /\ scanResult # NotFoundError
          /\ pc \in {"sof_seek", "sof_read", "return", "catch", "done"}

\* two marker codes were handled and the loop condition found the end
C12_Witness ==
    /\ scanResult = NotFoundError
    /\ pos = Len(pixelData)
    /\ iters = 2
    /\ pc = "catch"


\* the length-prefixed marker codes: ffc4, ffc8, ffcc, ffda .. fffe
SkipCodes == {65476, 65480, 65484} \cup (65498 .. 65534)

\* the 16-bit big-endian value at offset p of s
WordAt(s, p) == s[p + 1] * 256 + s[p + 2]

\* the offset of the first SOF marker code of s, read from offset p on as a
\* sequence of well-formed segments: zero-payload marker codes, and
\* length-prefixed ones with a declared length n >= 2 and n - 2 body bytes;
\* -1 when s is not well-formed up to a complete SOF segment
RECURSIVE FirstSof(_, _)
FirstSof(s, p) ==
    IF p + 4 <= Len(s) /\ WordAt(s, p) \in SofCodes
    THEN IF WordAt(s, p + 2) >= 3 /\ p + 2 + WordAt(s, p + 2) <= Len(s)
         THEN p ELSE -1
    ELSE IF p + 2 <= Len(s) /\ WordAt(s, p) \in ZeroCodes
    THEN FirstSof(s, p + 2)
    ELSE IF p + 4 <= Len(s) /\ WordAt(s, p) \in SkipCodes
    THEN IF WordAt(s, p + 2) >= 2 /\ p + 2 + WordAt(s, p + 2) <= Len(s)
         THEN FirstSof(s, p + 2 + WordAt(s, p + 2)) ELSE -1
    ELSE -1

\* C13: on a stream of well-formed segments with a complete SOF segment the
\* scan does not fail, the SOF marker code it stops at is the first one in
\* segment order, and it returns the precision byte of that segment.
C13_FirstSofOfWellFormed ==
    FirstSof(pixelData, 0) >= 0 =>
        /\ scanResult \in {None, Value(pixelData[FirstSof(pixelData, 0) + 5])}
        /\ marker \in SofCodes => iterStart = FirstSof(pixelData, 0)
        /\ iterStart <= FirstSof(pixelData, 0)
        /\ pc \in {"return", "done"} =>
              scanResult = Value(pixelData[FirstSof(pixelData, 0) + 5])

\* an APP0 segment whose body is an SOF_0 marker code was skipped, the
\* precision 12 of the ffcf segment behind it returned, and the SOF_0
\* segment of precision 16 after that left unread
C13_Witness ==
    /\ Len(pixelData) = 32
    /\ pixelData[2] = 224 /\ pixelData[5] = 255 /\ pixelData[6] = 192
    /\ pixelData[8] = 207
    /\ pixelData[21] = 192 /\ pixelData[24] = 16
    /\ iterStart = 6
    /\ scanResult = Value(12)


\* C15: a returned value is the byte at the precision offset of the SOF
\* marker code the scan stopped at, as an unsigned integer in 0 .. 255, not
\* validated, and the resolver returns it as it is.
C15_PrecisionPassedThrough ==
    scanResult.kind = "value" =>
        /\ scanResult.val \in 0 .. 255
        /\ scanResult.val = pixelData[iterStart + 5]
        /\ pc = "done" => result = Value(pixelData[iterStart + 5])

\* a precision byte of 200, above any valid bit depth and above 127, was
\* returned by the resolver
C15_Witness ==
    /\ pc = "done"
    /\ scanResult = Value(200)
    /\ result = Value(200)
    /\ pixelData[5] = 200


\* the marker codes of the SOF, length-prefixed and zero-payload sets
KnownCodes == SofCodes \cup SkipCodes \cup ZeroCodes

\* C16: a marker code of none of the three sets leads to the read of the
\* next two bytes b1, b2 and to nothing else, 4 bytes in all; the loop goes
\* on if and only if b1 = ff and 02 < b2 <= bf, whatever the marker code,
\* and otherwise the scan fails with SyntaxError, which has no other cause.
C16_UnrecognizedMarker ==
    /\ (lastOp[1] = "marker" /\ ~ScanEnded /\ marker \notin KnownCodes) =>
          pc = "res_b1"
    /\ pc \in {"res_b1", "res_b2", "res_check"} => marker \notin KnownCodes
    /\ lastOp[1] = "check" =>
          /\ marker \notin KnownCodes
          /\ pos = iterStart + 4
          /\ b1 = pixelData[iterStart + 3]
          /\ b2 = pixelData[iterStart + 4]
          /\ IF b1 = 255 /\ b2 > 2 /\ b2 <= 191
             THEN ~ScanEnded /\ pc \in {"loop", "read_marker"}
             ELSE scanResult = SyntaxError
    /\ scanResult = SyntaxError => lastOp[1] = "check"

\* after the marker code 0000 the bytes ff bf, the upper end of the range,
\* let the loop go on
C16_Witness ==
    /\ lastOp = <<"check", 4, 4>>
    /\ marker = 0
    /\ b1 = 255 /\ b2 = 191
    /\ pc = "loop"
    /\ ~ScanEnded


\* C17: for a length-prefixed marker code at offset p with the declared
\* length N, any value of 0 .. 65535 read big-endian at p + 2, the seek moves
\* the cursor N - 2 from behind the length field, in signed arithmetic with
\* no wrap, to p + 2 + N, and it is there that the next marker code is read.
C17_SkipByDeclaredLength ==
    /\ (lastOp[1] = "marker" /\ ~ScanEnded /\ marker \in SkipCodes) =>
          pc = "len_read"
    /\ (lastOp[1] = "length" /\ ~ScanEnded) =>
          /\ marker \in SkipCodes
          /\ pos = iterStart + 4
          /\ segLen = WordAt(pixelData, iterStart + 2)
          /\ segLen \in 0 .. 65535
    /\ lastOp[1] = "skip" =>
          /\ marker \in SkipCodes
          /\ ~ScanEnded
          /\ segLen = WordAt(pixelData, iterStart + 2)
          /\ lastOp = <<"skip", iterStart + 4, iterStart + 2 + segLen>>
          /\ pos - lastOp[2] = segLen - 2
          /\ pos = iterStart + 2 + segLen
    /\ (prevIterStart >= 0 /\ WordAt(pixelData, prevIterStart) \in SkipCodes) =>
          iterStart = prevIterStart + 2 + WordAt(pixelData, prevIterStart + 2)

\* a segment of declared length 3 at offset 0, and the next marker code read
\* at offset 5
C17_Witness ==
    /\ lastOp = <<"marker", 5, 7>>
    /\ prevIterStart = 0
    /\ segLen = 3
    /\ WordAt(pixelData, 0) \in SkipCodes
    /\ iterStart = 5


\* the reads of the scan and the number of bytes each one asks for
ReadOps == {"marker", "length", "b1", "b2", "precision"}
ReadNeed(op) == IF op \in {"marker", "length"} THEN 2 ELSE 1

\* C18: a read that asks for more bytes than are left (the marker code with
\* one byte left, the length with fewer than two, either raw byte of the
\* unrecognized branch, the precision byte of an SOF marker code followed by
\* fewer than three bytes) ends the scan with a read failure, and only such
\* a read does; the scan then has no precision value, and the failure is
\* neither SyntaxError nor NotFoundError.
C18_ShortReadFails ==
    /\ lastOp[1] \in ReadOps =>
          (lastOp[2] + ReadNeed(lastOp[1]) > Len(pixelData)
              <=> scanResult = ReadError)
    /\ (lastOp[1] = "marker" /\ Len(pixelData) = iterStart + 1) =>
          scanResult = ReadError
    /\ (lastOp[1] = "length" /\ Len(pixelData) < iterStart + 4) =>
          scanResult = ReadError
    /\ (lastOp[1] = "b1" /\ Len(pixelData) < iterStart + 3) =>
          scanResult = ReadError
    /\ (lastOp[1] = "b2" /\ Len(pixelData) < iterStart + 4) =>
          scanResult = ReadError
    /\ (lastOp[1] = "precision" /\ Len(pixelData) < iterStart + 5) =>
          scanResult = ReadError
    /\ scanResult = ReadError =>
          /\ lastOp[1] \in ReadOps
          /\ scanResult.kind = "error"
          /\ scanResult # SyntaxError
          /\ scanResult # NotFoundError
          /\ pc # "return"

\* an SOF marker code followed by two bytes only: the read of the precision
\* byte fails
C18_Witness ==
    /\ Len(pixelData) = 4
    /\ marker \in SofCodes
    /\ lastOp = <<"precision", 4, 4>>
    /\ scanResult = ReadError


\* C19: an iteration of the loop that neither returns nor fails leaves the
\* cursor at least 2 bytes beyond the offset where it began: 2 for a
\* zero-payload marker code, 4 for an unrecognized one with a reserved pair,
\* 2 + N for a length-prefixed one with the declared length N, the lengths 0
\* and 1 with their negative seek offsets included; so a stream of L bytes
\* has at most ceil(L / 2) iterations.
C19_IterationAdvances ==
    /\ iters <= (Len(pixelData) + 1) \div 2
    /\ (pc = "loop" /\ iterStart >= 0) =>
          /\ pos >= iterStart + 2
          /\ marker \in ZeroCodes => pos = iterStart + 2
          /\ marker \in SkipCodes =>
                pos = iterStart + 2 + WordAt(pixelData, iterStart + 2)
          /\ marker \notin KnownCodes => pos = iterStart + 4
    /\ (lastOp[1] = "marker" /\ prevIterStart >= 0) =>
          iterStart >= prevIterStart + 2

\* a segment of declared length 0 at offset 0, skipped by a seek of -2, and
\* the second iteration beginning at offset 2
C19_Witness ==
    /\ iters = 2
    /\ prevIterStart = 0
    /\ WordAt(pixelData, 0) \in SkipCodes
    /\ WordAt(pixelData, 2) = 0
    /\ lastOp = <<"marker", 2, 4>>


\* C20: when the declared length of a length-prefixed marker code carries
\* the cursor to the end of the stream or beyond it, the seek does not fail;
\* the loop condition then ends the loop and the scan fails with
\* NotFoundError, not with a read failure or SyntaxError; and no read
\* delivers a byte from beyond the end of the stream.
C20_SkipPastEndNotFound ==
    /\ scanResult # SeekError
    /\ lastOp[1] = "skip" => (~ScanEnded /\ pc \in {"loop", "read_marker"})
    /\ (lastOp[1] = "skip" /\ pos >= Len(pixelData)) =>
          (pc = "loop" /\ ENABLED LoopExit /\ ~ENABLED LoopEnter)
    /\ (/\ ScanEnded
        /\ iterStart >= 0
        /\ iterStart + 4 <= Len(pixelData)
        /\ WordAt(pixelData, iterStart) \in SkipCodes
        /\ iterStart + 2 + WordAt(pixelData, iterStart + 2) >= Len(pixelData)) =>
          /\ scanResult = NotFoundError
          /\ scanResult # ReadError
          /\ scanResult # SyntaxError
          /\ lastOp[1] = "notfound"
          /\ pos = iterStart + 2 + WordAt(pixelData, iterStart + 2)
    /\ (lastOp[1] \in ReadOps /\ scanResult # ReadError) =>
          /\ lastOp[3] = lastOp[2] + ReadNeed(lastOp[1])
          /\ lastOp[3] <= Len(pixelData)

\* a length-prefixed marker code at offset 0 whose declared length leads
\* beyond the last byte: the scan has ended with NotFoundError
C20_Witness ==
    /\ iterStart = 0
    /\ Len(pixelData) >= 4
    /\ WordAt(pixelData, 0) \in SkipCodes
    /\ pos > Len(pixelData)
    /\ lastOp[1] = "notfound"
    /\ scanResult = NotFoundError

====
